---- MODULE Spec2Model ----
(***************************************************************************)
(* The AWS EC2 resource detector of opentelemetry-aws:                     *)
(*   detector/ec2/instance_metadata.rs  EC2InstanceMetadataClient          *)
(*   detector/ec2/mod.rs                EC2ResourceDetector                *)
(* A detect call is modelled as the steps of its blocking call chain       *)
(* (detect -> get_instance_identity_document -> send -> json -> mapping),  *)
(* so that calls of several threads interleave at every blocking point.    *)
(***************************************************************************)
EXTENDS Integers, Sequences, FiniteSets, TLC

(* ---------------- bounds of the exploration ---------------- *)

\* threads that share one detector
NumCallers == 2
\* keys of a response body that deviate from the reference document
MaxDeviations == 2

Callers == 1..NumCallers

(* ---------------- JSON values and response bodies ---------------- *)

JStr(s) == <<"string", s>>
JNull == <<"null">>
Absent == <<"absent">>

IsJStr(v) == Len(v) = 2 /\ v[1] = "string"

\* the fields of the struct, in declaration order
Fields ==
  <<"private_ip", "instance_id", "instance_type", "account_id",
    "image_id", "architecture", "region", "availability_zone">>

FieldSet == {Fields[i] : i \in 1..Len(Fields)}

\* #[serde(rename_all="camelCase")]: the external key of every field
RenameAll ==
  [private_ip |-> "privateIp", instance_id |-> "instanceId",
   instance_type |-> "instanceType", account_id |-> "accountId",
   image_id |-> "imageId", architecture |-> "architecture",
   region |-> "region", availability_zone |-> "availabilityZone"]

RecognizedKeys == {RenameAll[f] : f \in FieldSet}

\* keys of real responses that the struct does not declare
ExtraKeys == {"billingProducts", "pendingTime"}

AllKeys == RecognizedKeys \cup ExtraKeys

\* the value an object holds for a key, Absent for a key it lacks
Get(o, k) == IF k \in DOMAIN o THEN o[k] ELSE Absent

\* the document of the tests
ExampleDocument ==
  [private_ip |-> "10.0.0.45", instance_id |-> "i-1234567890abcdef0",
   instance_type |-> "t2.micro", account_id |-> "123456789012",
   image_id |-> "ami-5fb8c835", architecture |-> "x86_64",
   region |-> "eu-west-1", availability_zone |-> "eu-west-1a"]

\* #[derive(Default)]: every field the empty string
DefaultDocument == [f \in FieldSet |-> ""]

\* the JSON object of the tests' body, restricted to the recognized keys;
\* a JSON object is a function from keys to values, Absent for a key it lacks
ExampleObject ==
  [k \in AllKeys |->
     IF \E f \in FieldSet : RenameAll[f] = k
     THEN JStr(ExampleDocument[CHOOSE f \in FieldSet : RenameAll[f] = k])
     ELSE Absent]

\* a second string value, with blanks that a trimming reader would lose
AltString == " x "

\* what a deviating key may hold instead of its reference value
Options(k) ==
  IF k \in RecognizedKeys THEN {Absent, JNull, JStr(AltString), JStr("")}
  ELSE {JNull, JStr(AltString)}

AllOptions == UNION {Options(k) : k \in AllKeys}

KeySets(n) == {S \in SUBSET AllKeys : Cardinality(S) <= n}

\* the reference object with the keys of S replaced
DeviatingObjects(n) ==
  UNION {
    { [k \in AllKeys |-> IF k \in S THEN g[k] ELSE ExampleObject[k]] :
        g \in {h \in [S -> AllOptions] : \A k \in S : h[k] \in Options(k)} } :
    S \in KeySets(n) }

\* the reference object lacking any subset of the recognized keys
LackingObjects ==
  { [k \in AllKeys |-> IF k \in S THEN Absent ELSE ExampleObject[k]] :
      S \in SUBSET RecognizedKeys }

NoObject == [k \in AllKeys |-> Absent]

ObjectBody(o) == [kind |-> "object", obj |-> o]
EmptyBody == [kind |-> "empty", obj |-> NoObject]
MalformedBody == [kind |-> "malformed", obj |-> NoObject]

Bodies(n) ==
  {EmptyBody, MalformedBody}
    \cup {ObjectBody(o) : o \in DeviatingObjects(n) \cup LackingObjects}

(* ---------------- results and errors ---------------- *)

NoDocument == DefaultDocument
NoMessage == <<>>

Ok(doc) == [ok |-> TRUE, doc |-> doc, err |-> "", msg |-> NoMessage]
Err(kind, msg) == [ok |-> FALSE, doc |-> NoDocument, err |-> kind, msg |-> msg]

\* Error::HttpRequestFailed(format!("HTTP request failed: {:?}", e))
HttpRequestFailed(e) == Err("HttpRequestFailed", <<"HTTP request failed: ", e>>)

\* as if a decode failure were reported as a failed request
DeserializationAsHttp(e) == Err("HttpRequestFailed", <<"failed to deserialize document: ", e>>)

\* Error::Deserialization(format!("failed to deserialize document: {:?}", e))
Deserialization(e) == Err("Deserialization", <<"failed to deserialize document: ", e>>)

\* a message is empty when every piece of it is
MessageEmpty(m) == \A i \in 1..Len(m) : m[i] = ""

NoResult == [ok |-> FALSE, doc |-> NoDocument, err |-> "none", msg |-> NoMessage]

(* ---------------- serde: decoding the body ---------------- *)

\* the derived Deserialize of the struct: every field must be present with a
\* string value; keys the struct does not declare are skipped
MissingFields(o, rename) == {f \in FieldSet : Get(o, rename[f]) = Absent}

InvalidFields(o, rename) ==
  {f \in FieldSet : Get(o, rename[f]) # Absent /\ ~IsJStr(Get(o, rename[f]))}

DeserializeWith(o, rename) ==
  IF InvalidFields(o, rename) # {}
  THEN [ok |-> FALSE, doc |-> NoDocument, e |-> "invalid type, expected a string"]
  ELSE IF MissingFields(o, rename) # {}
  THEN [ok |-> FALSE, doc |-> NoDocument, e |-> "missing field"]
  ELSE [ok |-> TRUE, doc |-> [f \in FieldSet |-> Get(o, rename[f])[2]], e |-> ""]

\* as if the struct carried #[serde(default)]
DeserializeDefaulting(o) ==
  IF InvalidFields(o, RenameAll) # {}
  THEN [ok |-> FALSE, doc |-> NoDocument, e |-> "invalid type, expected a string"]
  ELSE [ok |-> TRUE,
        doc |-> [f \in FieldSet |->
                   IF o[RenameAll[f]] = Absent THEN "" ELSE o[RenameAll[f]][2]],
        e |-> ""]

\* as if the struct carried #[serde(deny_unknown_fields)]
DeserializeDenyUnknown(o) ==
  IF \E k \in ExtraKeys : o[k] # Absent
  THEN [ok |-> FALSE, doc |-> NoDocument, e |-> "unknown field"]
  ELSE DeserializeWith(o, RenameAll)

Deserialize(o) == DeserializeWith(o, RenameAll)

\* response.json::<EC2InstanceIdentityDocument>()
Json(body) ==
  IF body.kind = "empty"
  THEN [ok |-> FALSE, doc |-> NoDocument, e |-> "EOF while parsing a value"]
  ELSE IF body.kind = "malformed"
  THEN [ok |-> FALSE, doc |-> NoDocument, e |-> "expected value"]
  ELSE Deserialize(body.obj)

(* ---------------- the detector's mapping ---------------- *)

\* Resource::empty()
EmptyResource == <<>>

\* as if region and availability zone were exchanged
AttributesSwapped(doc) ==
  << <<"cloud.provider", "aws">>,
     <<"cloud.platform", "aws_ec2">>,
     <<"cloud.account.id", doc.account_id>>,
     <<"cloud.region", doc.availability_zone>>,
     <<"cloud.availability_zone", doc.region>>,
     <<"host.id", doc.instance_id>>,
     <<"host.type", doc.instance_type>>,
     <<"host.image.id", doc.image_id>> >>

\* as if the host id were the private address
AttributesPrivateIp(doc) ==
  << <<"cloud.provider", "aws">>,
     <<"cloud.platform", "aws_ec2">>,
     <<"cloud.account.id", doc.account_id>>,
     <<"cloud.region", doc.region>>,
     <<"cloud.availability_zone", doc.availability_zone>>,
     <<"host.id", doc.private_ip>>,
     <<"host.type", doc.instance_type>>,
     <<"host.image.id", doc.image_id>> >>

\* the attributes array of detect, as handed to Resource::new
Attributes(doc) ==
  << <<"cloud.provider", "aws">>,
     <<"cloud.platform", "aws_ec2">>,
     <<"cloud.account.id", doc.account_id>>,
     <<"cloud.region", doc.region>>,
     <<"cloud.availability_zone", doc.availability_zone>>,
     <<"host.id", doc.instance_id>>,
     <<"host.type", doc.instance_type>>,
     <<"host.image.id", doc.image_id>> >>

\* as if the result were unwrapped without the is_err check
DetectOutcomeUnchecked(result) ==
  IF result.ok
  THEN [panicked |-> FALSE, attrs |-> Attributes(result.doc)]
  ELSE [panicked |-> TRUE, attrs |-> EmptyResource]

\* lines 32-48 of detect: is_err, unwrap, mapping
DetectOutcome(result) ==
  IF ~result.ok
  THEN [panicked |-> FALSE, attrs |-> EmptyResource]
  ELSE [panicked |-> FALSE, attrs |-> Attributes(result.doc)]

(* ---------------- clients and the endpoint ---------------- *)

\* a url is the sequence of the pieces it is concatenated from
DefaultUrl == <<"http://169.254.169.254">>
MockUrl == <<"http://127.0.0.1:1234">>
DocumentPath == "/latest/dynamic/instance-identity/document"

\* format!("{}/latest/dynamic/instance-identity/document", self.url)
RequestUrl(url) == url \o <<DocumentPath>>

\* EC2InstanceMetadataClient { url, client }
MetadataClient(url) ==
  [kind |-> "imds", url |-> url, available |-> FALSE, document |-> DefaultDocument]

\* the TestClient of the detector's tests
TestClient(available, document) ==
  [kind |-> "test", url |-> <<>>, available |-> available, document |-> document]

\* the timeouts of the tests: Duration::from_secs(0), Duration::from_secs(10)
Timeouts == {0, 10}

\* the statuses of the tests' mock server
Statuses == {200, 404}

IsSuccess(status) == status \in 200..299

NoResponse == [status |-> 0, body |-> EmptyBody]

\* as if the request were sent without .timeout(timeout)
SendNoTimeout(ep, t) ==
  IF ~ep.reachable THEN [ok |-> FALSE, e |-> "Connect", response |-> NoResponse]
  ELSE [ok |-> TRUE, e |-> "", response |-> [status |-> ep.status, body |-> ep.body]]

\* self.client.get(url).timeout(timeout).send(): an elapsed timeout or an
\* unreachable server is an error, any response that arrives is Ok whatever
\* its status
Send(ep, t) ==
  IF t = 0 THEN [ok |-> FALSE, e |-> "TimedOut", response |-> NoResponse]
  ELSE IF ~ep.reachable THEN [ok |-> FALSE, e |-> "Connect", response |-> NoResponse]
  ELSE [ok |-> TRUE, e |-> "", response |-> [status |-> ep.status, body |-> ep.body]]

(* ---------------- state ---------------- *)

VARIABLES
  client,     \* the detector's client (Box<dyn Client>)
  endpoint,   \* the metadata service at the client's url
  pc,         \* where each caller stands in its detect call
  timeout,    \* the timeout each caller gave to detect
  fetched,    \* the timeouts handed to get_instance_identity_document in this call
  sent,       \* the requests this call has sent
  response,   \* the response send returned
  result,     \* what get_instance_identity_document returned
  attrs,      \* what detect returned
  returned,   \* every <<timeout, attributes>> a call has returned
  threads     \* the threads of the host program that call detect

vars ==
  <<client, endpoint, pc, timeout, fetched, sent, response, result, attrs,
    returned, threads>>

(* ---------------- initial states ---------------- *)

\* EC2InstanceMetadataClient::default() and ::with_custom_url(url)
Clients == {MetadataClient(DefaultUrl), MetadataClient(MockUrl)}

\* the detector's tests: TestClient { available, document }
TestClients ==
  {TestClient(a, d) : a \in BOOLEAN, d \in {ExampleDocument, DefaultDocument}}

Endpoints(bodies) ==
  {[reachable |-> r, status |-> s, body |-> b] :
     r \in BOOLEAN, s \in Statuses, b \in bodies}

\* the bodies explored when several threads share the detector
SharedBodies ==
  {ObjectBody(ExampleObject), EmptyBody,
   ObjectBody([ExampleObject EXCEPT !["region"] = Absent])}

InitCalls ==
  /\ pc = [c \in Callers |-> "idle"]
  /\ timeout = [c \in Callers |-> 0]
  /\ fetched = [c \in Callers |-> <<>>]
  /\ sent = [c \in Callers |-> <<>>]
  /\ response = [c \in Callers |-> NoResponse]
  /\ result = [c \in Callers |-> NoResult]
  /\ attrs = [c \in Callers |-> EmptyResource]
  /\ returned = {}

\* one thread, every body of the family
InitSingle ==
  /\ threads = {1}
  /\ \/ /\ client = MetadataClient(MockUrl)
        /\ endpoint \in Endpoints(Bodies(MaxDeviations))
     \/ /\ client \in TestClients
        /\ endpoint \in Endpoints({EmptyBody})
  /\ InitCalls

\* every thread, the shared bodies
InitShared ==
  /\ threads = Callers
  /\ \/ /\ client \in Clients
        /\ endpoint \in Endpoints(SharedBodies)
     \/ /\ client \in TestClients
        /\ endpoint \in Endpoints({EmptyBody})
  /\ InitCalls

Init == InitSingle \/ InitShared

(* ---------------- actions ---------------- *)

\* detect(timeout), up to its call of the client (line 31)
Detect(c, t) ==
  /\ c \in threads
  /\ pc[c] \in {"idle", "done"}
  /\ pc' = [pc EXCEPT ![c] = "fetch"]
  /\ timeout' = [timeout EXCEPT ![c] = t]
  /\ fetched' = [fetched EXCEPT ![c] = <<t>>]
  /\ sent' = [sent EXCEPT ![c] = <<>>]
  /\ response' = [response EXCEPT ![c] = NoResponse]
  /\ result' = [result EXCEPT ![c] = NoResult]
  /\ attrs' = [attrs EXCEPT ![c] = EmptyResource]
  /\ UNCHANGED <<client, endpoint, returned, threads>>

\* TestClient::get_instance_identity_document
FetchTest(c) ==
  /\ c \in threads
  /\ pc[c] = "fetch"
  /\ client.kind = "test"
  /\ result' = [result EXCEPT ![c] =
                  IF client.available THEN Ok(client.document)
                  ELSE Err("HttpRequestFailed", <<"something went wrong">>)]
  /\ pc' = [pc EXCEPT ![c] = "map"]
  /\ UNCHANGED <<client, endpoint, timeout, fetched, sent, response, attrs,
                 returned, threads>>

Request(url, t) == [method |-> "GET", url |-> RequestUrl(url), timeout |-> t]

\* as if a failed send were tried a second time
SendRequestRetrying(c) ==
  /\ c \in threads
  /\ pc[c] = "fetch"
  /\ client.kind = "imds"
  /\ LET t == fetched[c][1]
         out == Send(endpoint, t)
         req == Request(client.url, t)
     IN /\ sent' = [sent EXCEPT ![c] =
                      IF out.ok THEN Append(@, req) ELSE Append(Append(@, req), req)]
              /\ IF out.ok
           THEN /\ response' = [response EXCEPT ![c] = out.response]
                /\ pc' = [pc EXCEPT ![c] = "json"]
                /\ UNCHANGED result
           ELSE /\ result' = [result EXCEPT ![c] = HttpRequestFailed(out.e)]
                /\ pc' = [pc EXCEPT ![c] = "map"]
                /\ UNCHANGED response
  /\ UNCHANGED <<client, endpoint, timeout, fetched, attrs, returned, threads>>

\* as if the request url were stored back into the client
SendRequestAppending(c) ==
  /\ c \in threads
  /\ pc[c] = "fetch"
  /\ client.kind = "imds"
  /\ LET t == fetched[c][1]
         out == Send(endpoint, t)
     IN /\ sent' = [sent EXCEPT ![c] = Append(@, Request(client.url, t))]
        /\ client' = [client EXCEPT !.url = RequestUrl(@)]
              /\ IF out.ok
           THEN /\ response' = [response EXCEPT ![c] = out.response]
                /\ pc' = [pc EXCEPT ![c] = "json"]
                /\ UNCHANGED result
           ELSE /\ result' = [result EXCEPT ![c] = HttpRequestFailed(out.e)]
                /\ pc' = [pc EXCEPT ![c] = "map"]
                /\ UNCHANGED response
  /\ UNCHANGED <<endpoint, timeout, fetched, attrs, returned, threads>>

\* EC2InstanceMetadataClient::get_instance_identity_document, lines 61-65:
\* one GET with the timeout; a send error returns HttpRequestFailed at once
SendRequest(c) ==
  /\ c \in threads
  /\ pc[c] = "fetch"
  /\ client.kind = "imds"
  /\ LET t == fetched[c][1]
         out == Send(endpoint, t)
     IN /\ sent' = [sent EXCEPT ![c] = Append(@, Request(client.url, t))]
              /\ IF out.ok
           THEN /\ response' = [response EXCEPT ![c] = out.response]
                /\ pc' = [pc EXCEPT ![c] = "json"]
                /\ UNCHANGED result
           ELSE /\ result' = [result EXCEPT ![c] = HttpRequestFailed(out.e)]
                /\ pc' = [pc EXCEPT ![c] = "map"]
                /\ UNCHANGED response
  /\ UNCHANGED <<client, endpoint, timeout, fetched, attrs, returned, threads>>

\* lines 67-71: decode the body of the response
ReadJson(c) ==
  /\ c \in threads
  /\ pc[c] = "json"
  /\ LET r == Json(response[c].body)
     IN result' = [result EXCEPT ![c] =
                     IF r.ok THEN Ok(r.doc) ELSE Deserialization(r.e)]
  /\ pc' = [pc EXCEPT ![c] = "map"]
  /\ UNCHANGED <<client, endpoint, timeout, fetched, sent, response, attrs,
                 returned, threads>>

\* detect, lines 32-49: empty on an error, the eight attributes otherwise
Return(c) ==
  /\ c \in threads
  /\ pc[c] = "map"
  /\ LET out == DetectOutcome(result[c])
     IN /\ pc' = [pc EXCEPT ![c] = IF out.panicked THEN "panicked" ELSE "done"]
        /\ attrs' = [attrs EXCEPT ![c] = out.attrs]
        /\ returned' =
             IF out.panicked THEN returned
             ELSE returned \cup {<<timeout[c], out.attrs>>}
  /\ UNCHANGED <<client, endpoint, timeout, fetched, sent, response, result,
                 threads>>

Next ==
  \/ \E c \in Callers, t \in Timeouts : Detect(c, t)
  \/ \E c \in Callers : FetchTest(c)
  \/ \E c \in Callers : SendRequest(c)
  \/ \E c \in Callers : ReadJson(c)
  \/ \E c \in Callers : Return(c)

Spec == Init /\ [][Next]_vars

(* ---------------- properties ---------------- *)

\* the call of c has a result from the client
Fetched(c) == pc[c] \in {"map", "done"}

\* the call of c received a response from the endpoint
Received(c) == response[c] # NoResponse

Done(c) == pc[c] = "done"

\* C1: when the client's fetch returned Ok(D), detect returns exactly the
\* eight pairs, in order: cloud.provider = "aws", cloud.platform = "aws_ec2",
\* cloud.account.id = D.account_id, cloud.region = D.region,
\* cloud.availability_zone = D.availability_zone, host.id = D.instance_id,
\* host.type = D.instance_type, host.image.id = D.image_id, values verbatim.
C1_SuccessMapping ==
  \A c \in Callers :
    (Done(c) /\ result[c].ok) =>
      LET D == result[c].doc
          A == attrs[c]
      IN /\ Len(A) = 8
         /\ A[1] = <<"cloud.provider", "aws">>
         /\ A[2] = <<"cloud.platform", "aws_ec2">>
         /\ A[3] = <<"cloud.account.id", D.account_id>>
         /\ A[4] = <<"cloud.region", D.region>>
         /\ A[5] = <<"cloud.availability_zone", D.availability_zone>>
         /\ A[6] = <<"host.id", D.instance_id>>
         /\ A[7] = <<"host.type", D.instance_type>>
         /\ A[8] = <<"host.image.id", D.image_id>>

\* a call returned the attributes of a document with a value that trimming
\* would change
C1_Witness ==
  \E c \in Callers :
    /\ Done(c) /\ result[c].ok
    /\ result[c].doc.region = AltString
    /\ attrs[c][4] = <<"cloud.region", AltString>>

\* C2: for every failure of the client's fetch, of either kind and with any
\* message, detect returns the empty AttributeSet and never panics.
C2_FailureSwallowed ==
  \A c \in Callers :
    /\ pc[c] # "panicked"
    /\ (Done(c) /\ ~result[c].ok) => attrs[c] = EmptyResource

\* two calls returned after failures of the two kinds
C2_Witness ==
  \E c, d \in Callers :
    /\ Done(c) /\ result[c].err = "HttpRequestFailed" /\ attrs[c] = EmptyResource
    /\ Done(d) /\ result[d].err = "Deserialization" /\ attrs[d] = EmptyResource

\* C3: a response with a non-success status never yields Ok(document) from
\* the real client, and detect returns the empty AttributeSet whatever the
\* body of that response is.
C3_NonSuccessNeverOk ==
  \A c \in Callers :
    (client.kind = "imds" /\ Received(c) /\ ~IsSuccess(response[c].status)) =>
      /\ ~result[c].ok
      /\ Done(c) => attrs[c] = EmptyResource

\* the recognized keys a JSON object lacks
Lacking(o) == {k \in RecognizedKeys : o[k] = Absent}

\* every recognized key the object holds has a string value
PresentAreStrings(o) == \A k \in RecognizedKeys : o[k] = Absent \/ IsJStr(o[k])

\* the document whose fields are the values of the camelCase keys of o,
\* the empty string for a key o lacks
DocumentOf(o) ==
  LET V(k) == IF o[k] = Absent THEN "" ELSE o[k][2]
  IN [private_ip |-> V("privateIp"), instance_id |-> V("instanceId"),
      instance_type |-> V("instanceType"), account_id |-> V("accountId"),
      image_id |-> V("imageId"), architecture |-> V("architecture"),
      region |-> V("region"), availability_zone |-> V("availabilityZone")]

\* C4 as stated: a JSON object body that lacks any subset of the recognized
\* keys decodes to Ok(document), the missing fields empty and the present
\* fields the values of their keys.
C4_MissingFieldsDefault ==
  \A c \in Callers :
    (Fetched(c) /\ Received(c) /\ response[c].body.kind = "object"
       /\ PresentAreStrings(response[c].body.obj)) =>
      /\ result[c].ok
      /\ result[c].doc = DocumentOf(response[c].body.obj)

\* C4 as amended: a JSON object body whose present recognized keys hold
\* strings decodes to Err(Deserialization) when it lacks one or more of the
\* recognized keys, and to Ok(document) with every field the value of its
\* key when it lacks none.
C4_MissingFieldsRejected ==
  \A c \in Callers :
    (Fetched(c) /\ Received(c) /\ response[c].body.kind = "object"
       /\ PresentAreStrings(response[c].body.obj)) =>
      IF Lacking(response[c].body.obj) # {}
      THEN ~result[c].ok /\ result[c].err = "Deserialization"
      ELSE result[c].ok /\ result[c].doc = DocumentOf(response[c].body.obj)

\* a body lacking one key only was decoded
C4_Witness ==
  \E c \in Callers :
    /\ Fetched(c) /\ Received(c) /\ response[c].body.kind = "object"
    /\ PresentAreStrings(response[c].body.obj)
    /\ Cardinality(Lacking(response[c].body.obj)) = 1
    /\ result[c].err = "Deserialization"

\* C5: a JSON object body that holds strings for all eight recognized keys,
\* plus any additional keys with any values, decodes to Ok(document) with
\* each field the value of its camelCase key; the additional keys have no
\* influence on the document.
C5_ExtraKeysIgnored ==
  \A c \in Callers :
    (Fetched(c) /\ Received(c) /\ response[c].body.kind = "object"
       /\ PresentAreStrings(response[c].body.obj)
       /\ Lacking(response[c].body.obj) = {}) =>
      /\ result[c].ok
      /\ result[c].doc = DocumentOf(response[c].body.obj)

\* a body with a null and a string under additional keys was decoded
C5_Witness ==
  \E c \in Callers :
    /\ Fetched(c) /\ Received(c) /\ response[c].body.kind = "object"
    /\ response[c].body.obj["billingProducts"] = JNull
    /\ response[c].body.obj["pendingTime"] = JStr(AltString)
    /\ result[c].ok
    /\ result[c].doc = ExampleDocument

\* the body does not decode into the identity document
Undecodable(body) ==
  \/ body.kind \in {"empty", "malformed"}
  \/ /\ body.kind = "object"
     /\ \E k \in RecognizedKeys : body.obj[k] # Absent /\ ~IsJStr(body.obj[k])

\* C6: when a response is received but its body does not decode (malformed
\* JSON, an empty body, a recognized key with a non-string value), fetch
\* returns Err(Deserialization), never Ok and never HttpRequestFailed.
C6_DecodeFailure ==
  \A c \in Callers :
    (Fetched(c) /\ Received(c) /\ Undecodable(response[c].body)) =>
      ~result[c].ok /\ result[c].err = "Deserialization"

\* the bodiless 404 of the tests and a null under a recognized key
C6_Witness ==
  \E c \in Callers :
    /\ Fetched(c) /\ Received(c)
    /\ \/ response[c].status = 404 /\ response[c].body.kind = "empty"
       \/ response[c].body.kind = "object" /\ response[c].body.obj["region"] = JNull
    /\ result[c].err = "Deserialization"

\* C7: fetch with a timeout of zero against a reachable server, whatever its
\* status and body, returns Err(HttpRequestFailed) with a non-empty message;
\* no response is taken and no body is decoded.
C7_ZeroTimeout ==
  \A c \in Callers :
    (client.kind = "imds" /\ endpoint.reachable /\ timeout[c] = 0) =>
      /\ pc[c] # "json"
      /\ ~Received(c)
      /\ Fetched(c) =>
           /\ ~result[c].ok
           /\ result[c].err = "HttpRequestFailed"
           /\ ~MessageEmpty(result[c].msg)

\* a zero-timeout fetch against a server that would answer 200 with the
\* well-formed document
C7_Witness ==
  \E c \in Callers :
    /\ client.kind = "imds" /\ endpoint.reachable /\ timeout[c] = 0
    /\ endpoint.status = 200 /\ endpoint.body = ObjectBody(ExampleObject)
    /\ Fetched(c) /\ result[c].err = "HttpRequestFailed"

\* calls with the same timeout returned the same attributes
SameResults ==
  \A x, y \in returned : x[1] = y[1] => x[2] = y[2]

C9_OneRequestPerCall ==
  \A c \in Callers :
    /\ pc[c] \in {"fetch", "json", "map", "done"} => fetched[c] = <<timeout[c]>>
    /\ pc[c] = "fetch" => sent[c] = <<>>
    /\ pc[c] \in {"json", "map", "done"} =>
         IF client.kind = "imds"
         THEN sent[c] =
                << [method |-> "GET",
                    url |-> client.url \o <<"/latest/dynamic/instance-identity/document">>,
                    timeout |-> timeout[c]] >>
         ELSE sent[c] = <<>>

\* a call that failed has sent one request, after calls of both timeouts
\* had returned
C9_Witness ==
  \E c \in Callers :
    /\ client.kind = "imds"
    /\ Done(c) /\ ~result[c].ok /\ Len(sent[c]) = 1
    /\ Cardinality(returned) = 2

\* C10: the output of detect does not depend on private_ip or architecture:
\* it is the output for the document with both fields blanked, and every
\* value of it is a constant or one of the six other fields.
C10_PrivateFieldsOmitted ==
  \A c \in Callers :
    (Done(c) /\ result[c].ok) =>
      LET D == result[c].doc
          B == [D EXCEPT !.private_ip = "", !.architecture = ""]
      IN /\ attrs[c] = Attributes(B)
         /\ \A i \in 1..Len(attrs[c]) :
              attrs[c][i][2] \in
                {"aws", "aws_ec2", D.account_id, D.region, D.availability_zone,
                 D.instance_id, D.instance_type, D.image_id}

\* a call returned for a document whose private_ip and architecture differ
\* from every other value
C10_Witness ==
  \E c \in Callers :
    /\ Done(c) /\ result[c].ok
    /\ result[c].doc.private_ip = "10.0.0.45"
    /\ result[c].doc.architecture = "x86_64"
    /\ Len(attrs[c]) = 8

====
